---- MODULE Spec2Model ----
(***************************************************************************)
(* State-machine model of the CO2 ventilation monitor                      *)
(* (co2-app/src/CO2Monitor.jsx): the React state of the component, its     *)
(* event handlers and the values derived from the state on each render.    *)
(*                                                                         *)
(* JavaScript strings are modelled as sequences of one-character strings,  *)
(* so that the regular expressions, split, parseInt and padStart of the    *)
(* source are computed character by character.  JavaScript numbers that    *)
(* can be NaN are records [nan, val].                                      *)
(***************************************************************************)
EXTENDS Integers, Sequences, FiniteSets, TLC

VARIABLES
    measuredPoints,   \* useState([]): the measured readings, in insertion order
    projectedPoints,  \* useState([]): the projected points
    currentTime,      \* useState(''): content of the time field
    currentCO2,       \* useState(''): content of the CO2 field
    alerted,          \* TRUE iff the last handler run called alert()
    clearedOrigin,    \* history: wall-clock time of the origin dropped by the
                      \* last Clear, kept until the second reading after it
    classified,       \* the last call of getCO2Status: <<>> or <<[co2, status]>>
    chart,            \* chartData as computed by the last render
    beforeAdd         \* history: <<>>, or the sequences held before the Add
                      \* that was the last step or was just undone

vars == <<measuredPoints, projectedPoints, currentTime, currentCO2, alerted,
          clearedOrigin, classified, chart, beforeAdd>>

\* what the specifications that do not follow them leave alone
observers == <<classified, chart, beforeAdd>>

(***************************************************************************)
(* Bounds of the model.                                                    *)
(***************************************************************************)
MaxPoints == 3    \* readings accepted before Add is no longer explored
MaxStatusInput == 1200   \* largest concentration handed to getCO2Status

(***************************************************************************)
(* JavaScript numbers.                                                     *)
(***************************************************************************)
Num(n) == [nan |-> FALSE, val |-> n]
NaN == [nan |-> TRUE, val |-> 0]

\* a - b on JavaScript numbers
JsSub(a, b) == IF a.nan \/ b.nan THEN NaN ELSE Num(a.val - b.val)

\* a + b on JavaScript numbers
JsAdd(a, b) == IF a.nan \/ b.nan THEN NaN ELSE Num(a.val + b.val)

Abs(n) == IF n < 0 THEN -n ELSE n

Sign(n) == IF n < 0 THEN -1 ELSE 1

RECURSIVE Pow2(_)
Pow2(n) == IF n = 0 THEN 1 ELSE 2 * Pow2(n - 1)

\* Math.round of the exact rational n / d (d # 0): nearest integer, ties
\* towards +Infinity, i.e. floor(n/d + 1/2).
MathRound(n, d) ==
    LET nn == IF d < 0 THEN -n ELSE n
        dd == IF d < 0 THEN -d ELSE d
    IN  (2 * nn + dd) \div (2 * dd)

(***************************************************************************)
(* IEEE-754 double division.  The source computes rate = a / b and then    *)
(* Math.round(n / rate) for integers a, b, n: two divisions, each rounded  *)
(* to 53 significant bits.  The exact quotient q = n*b/a has denominator   *)
(* |a|, so it is either a tie (k + 1/2) or at least 1/(2|a|) away from     *)
(* one, which is far more than the rounding error: off a tie Math.round    *)
(* returns what it returns for q.  At a tie the doubles are followed:      *)
(* with a*2^s = b*Q + R (s = 52 - g, 2^g <= a/b < 2^(g+1)) the first       *)
(* division rounds up iff 2R > b or (2R = b and Q is odd), its relative    *)
(* error is (b - R)/(a*2^s) or R/(a*2^s), and the second division lands    *)
(* on q again iff that error moves n/rate by less than half a unit in the  *)
(* last place of q.                                                        *)
(***************************************************************************)
\* the integer g with 2^g <= a/b < 2^(g+1), for integers a, b > 0
RECURSIVE FloorLog2(_, _)
FloorLog2(a, b) ==
    IF a >= 2 * b THEN FloorLog2(a, 2 * b) + 1
    ELSE IF a >= b THEN 0
    ELSE FloorLog2(2 * a, b) - 1

\* <<(rem * 2^steps) % b, parity of the quotient>>, one bit at a time
RECURSIVE ShiftRem(_, _, _, _)
ShiftRem(rem, parity, b, steps) ==
    IF steps = 0 THEN <<rem, parity>>
    ELSE LET bit == IF 2 * rem >= b THEN 1 ELSE 0
         IN  ShiftRem(2 * rem - b * bit, bit, b, steps - 1)

\* x > y * 2^d and x >= y * 2^d, for integers x, y and any integer d
GtScaled(x, y, d) == IF d >= 0 THEN x > y * Pow2(d) ELSE x * Pow2(-d) > y
GeScaled(x, y, d) == IF d >= 0 THEN x >= y * Pow2(d) ELSE x * Pow2(-d) >= y

\* Math.round(n / (a / b)) in double arithmetic, for integers n, a # 0, b # 0
RoundOfQuotient(n, a, b) ==
    LET sgn   == Sign(n) * Sign(a) * Sign(b)
        A     == Abs(a)
        B     == Abs(b)
        twice == 2 * Abs(n) * B
        isTie == twice % A = 0 /\ (twice \div A) % 2 = 1
        k     == (twice \div A - 1) \div 2
        g     == FloorLog2(A, B)
        qr    == ShiftRem(A % B, (A \div B) % 2, B, 52 - g)
        R     == qr[1]
        up    == 2 * R > B \/ (2 * R = B /\ qr[2] = 1)
        down  == R > 0 /\ ~up
        e     == IF k = 0 THEN -1 ELSE FloorLog2(k, 1)
        \* below 1/2 the doubles are twice as dense as above it
        eLow  == IF k = 0 THEN -2 ELSE e
    IN  IF ~isTie THEN MathRound(sgn * Abs(n) * B, A)
        ELSE IF sgn > 0
        THEN (IF up /\ GtScaled((B - R) * (2 * k + 1), A, eLow - g)
              THEN k ELSE k + 1)
        ELSE (IF down /\ GeScaled(R * (2 * k + 1), A, e - g)
              THEN -(k + 1) ELSE -k)

(***************************************************************************)
(* JavaScript strings.                                                     *)
(***************************************************************************)
Digit == {"0", "1", "2", "3", "4", "5", "6", "7", "8", "9"}

DigitValue(c) ==
    CASE c = "0" -> 0 [] c = "1" -> 1 [] c = "2" -> 2 [] c = "3" -> 3
      [] c = "4" -> 4 [] c = "5" -> 5 [] c = "6" -> 6 [] c = "7" -> 7
      [] c = "8" -> 8 [] c = "9" -> 9

DigitChar(n) ==
    CASE n = 0 -> "0" [] n = 1 -> "1" [] n = 2 -> "2" [] n = 3 -> "3"
      [] n = 4 -> "4" [] n = 5 -> "5" [] n = 6 -> "6" [] n = 7 -> "7"
      [] n = 8 -> "8" [] n = 9 -> "9"

\* /^\d*$/
IsDigits(s) == \A i \in 1..Len(s) : s[i] \in Digit

\* value of a string of decimal digits (0 for the empty string)
RECURSIVE DigitsToInt(_)
DigitsToInt(s) ==
    IF s = <<>> THEN 0
    ELSE 10 * DigitsToInt(SubSeq(s, 1, Len(s) - 1)) + DigitValue(s[Len(s)])

\* length of the longest prefix of s made of decimal digits
RECURSIVE DigitPrefixLen(_)
DigitPrefixLen(s) ==
    IF s = <<>> \/ s[1] \notin Digit THEN 0 ELSE 1 + DigitPrefixLen(Tail(s))

\* parseInt(s): optional sign, then the longest run of digits; NaN when
\* there is no digit at that place.
parseInt(s) ==
    LET neg  == s # <<>> /\ s[1] = "-"
        body == IF s # <<>> /\ s[1] \in {"-", "+"} THEN Tail(s) ELSE s
        k    == DigitPrefixLen(body)
        v    == DigitsToInt(SubSeq(body, 1, k))
    IN  IF k = 0 THEN NaN ELSE Num(IF neg THEN -v ELSE v)

\* Number(s) for the strings .map(Number) is applied to: the parts of a
\* time string that passed timePattern, which are strings of digits.
Number(s) == DigitsToInt(s)

\* n.toString() for an integer n >= 0
RECURSIVE IntToString(_)
IntToString(n) ==
    IF n < 10 THEN <<DigitChar(n)>>
    ELSE IntToString(n \div 10) \o <<DigitChar(n % 10)>>

\* s.padStart(2, '0')
RECURSIVE PadStart2(_)
PadStart2(s) == IF Len(s) >= 2 THEN s ELSE PadStart2(<<"0">> \o s)

\* s.includes(':')
HasColon(s) == \E i \in 1..Len(s) : s[i] = ":"

\* s.split(':')
RECURSIVE Split(_)
Split(s) ==
    IF ~HasColon(s) THEN <<s>>
    ELSE LET k == CHOOSE i \in 1..Len(s) :
                      s[i] = ":" /\ \A j \in 1..(i - 1) : s[j] # ":"
         IN  <<SubSeq(s, 1, k - 1)>> \o Split(SubSeq(s, k + 1, Len(s)))

\* s.replace(/[^0-9:]/g, '')
RECURSIVE StripNonTimeChars(_)
StripNonTimeChars(s) ==
    IF s = <<>> THEN <<>>
    ELSE (IF s[1] \in Digit \cup {":"} THEN <<s[1]>> ELSE <<>>)
             \o StripNonTimeChars(Tail(s))

(***************************************************************************)
(* Inputs explored.  A time field accepts at most five characters          *)
(* (maxLength="5"); a field of type "number" reports either the empty      *)
(* string or a valid floating-point number, of which ".5" is one.          *)
(***************************************************************************)
RawTimeInputs ==
    { <<>>,
      <<"2", "3", ":", "5", "0">>,
      <<"0", ":", "1", "0">>,
      <<"0", "0", "0", "0">>,
      <<"2", "4", ":", "7">> }

RawCO2Inputs ==
    { <<>>,
      <<"1", "0", "0", "0">>,
      <<"8", "0", "0">>,
      <<"5", "5", "1">>,
      <<".", "5">>,
      <<"0">> }

\* wall-clock readings (hours, minutes) the "Now" button is pressed at
NowClock == { <<23, 50>>, <<0, 0>> }

(***************************************************************************)
(* Program constants.                                                      *)
(***************************************************************************)
IdealLevel == 550

(***************************************************************************)
(* Time field: onChange handler and the "Now" button.                      *)
(***************************************************************************)
\* /^\d{3,4}$/.test(s)
IsThreeOrFourDigits(s) == Len(s) \in {3, 4} /\ IsDigits(s)

\* Math.min(a, b)
MathMin(a, b) == IF a < b THEN a ELSE b

\* ValidHours without the padding to two digits
ValidHoursNoPad(hours) ==
    LET h == parseInt(hours)
    IN  IF hours # <<>>
        THEN IntToString(MathMin(IF h.nan THEN 0 ELSE h.val, 23))
        ELSE <<"0", "0">>

\* hours ? Math.min(parseInt(hours) || 0, 23).toString().padStart(2, '0') : '00'
ValidHours(hours) ==
    LET h == parseInt(hours)
    IN  IF hours # <<>>
        THEN PadStart2(IntToString(MathMin(IF h.nan THEN 0 ELSE h.val, 23)))
        ELSE <<"0", "0">>

\* the value the onChange handler of the time field stores for e.target.value
FormatTimeInput(raw) ==
    LET stripped == StripNonTimeChars(raw)
        value    == IF IsThreeOrFourDigits(stripped)
                    THEN SubSeq(stripped, 1, 2) \o <<":">>
                             \o SubSeq(stripped, 3, Len(stripped))
                    ELSE stripped
    IN  IF HasColon(value)
        THEN LET parts   == Split(value)
                 hours   == parts[1]
                 minutes == parts[2]
                 cut     == IF Len(minutes) > 2 THEN SubSeq(minutes, 1, 2)
                            ELSE minutes
                 m       == parseInt(cut)
                 validMinutes ==
                     IF minutes = <<>> THEN <<>>
                     ELSE IF ~m.nan /\ m.val > 59 THEN <<"5", "9">> ELSE cut
             IN  ValidHours(hours) \o <<":">> \o validMinutes
        ELSE value

TimeOnChange ==
    /\ \E raw \in RawTimeInputs : currentTime' = FormatTimeInput(raw)
    /\ alerted' = FALSE
    /\ UNCHANGED <<measuredPoints, projectedPoints, currentCO2>>

setCurrentTimeToNow ==
    /\ \E now \in NowClock :
          currentTime' = PadStart2(IntToString(now[1])) \o <<":">>
                             \o PadStart2(IntToString(now[2]))
    /\ alerted' = FALSE
    /\ UNCHANGED <<measuredPoints, projectedPoints, currentCO2>>

CO2OnChange ==
    /\ \E raw \in RawCO2Inputs : currentCO2' = raw
    /\ alerted' = FALSE
    /\ UNCHANGED <<measuredPoints, projectedPoints, currentTime>>

(***************************************************************************)
(* addDataPoint and the projection.                                        *)
(***************************************************************************)
MatchHours(h) ==
    \/ Len(h) = 1 /\ h[1] \in Digit
    \/ Len(h) = 2 /\ h[1] \in {"0", "1"} /\ h[2] \in Digit
    \/ Len(h) = 2 /\ h[1] = "2" /\ h[2] \in {"0", "1", "2", "3"}

MatchMinutes(m) ==
    Len(m) = 2 /\ m[1] \in {"0", "1", "2", "3", "4", "5"} /\ m[2] \in Digit

\* /^([01]?[0-9]|2[0-3]):([0-5][0-9])$/.test(s)
timePattern(s) ==
    \E k \in 1..Len(s) :
        /\ s[k] = ":"
        /\ MatchHours(SubSeq(s, 1, k - 1))
        /\ MatchMinutes(SubSeq(s, k + 1, Len(s)))

\* const [hours, minutes] = time.split(':').map(Number); hours * 60 + minutes
TotalMinutes(time) ==
    LET parts == Split(time) IN Number(parts[1]) * 60 + Number(parts[2])

\* ElapsedMinutes with the first reading's elapsed time taken from the clock
ElapsedMinutesFromClock(totalMinutes, measured) ==
    IF Len(measured) = 0 THEN totalMinutes
    ELSE LET firstPointMinutes == TotalMinutes(measured[1].time)
             elapsed           == totalMinutes - firstPointMinutes
         IN  IF elapsed < 0 THEN elapsed + 24 * 60 ELSE elapsed

\* ElapsedMinutes with a half-day correction on a negative difference
ElapsedMinutesHalfDay(totalMinutes, measured) ==
    IF Len(measured) = 0 THEN 0
    ELSE LET firstPointMinutes == TotalMinutes(measured[1].time)
             elapsed           == totalMinutes - firstPointMinutes
         IN  IF elapsed < 0 THEN elapsed + 12 * 60 ELSE elapsed

\* ElapsedMinutes without the correction on a negative difference
ElapsedMinutesNoWrap(totalMinutes, measured) ==
    IF Len(measured) = 0 THEN 0
    ELSE totalMinutes - TotalMinutes(measured[1].time)

\* elapsed minutes of a reading taken at totalMinutes, given the readings so far
ElapsedMinutes(totalMinutes, measured) ==
    IF Len(measured) = 0 THEN 0
    ELSE LET firstPointMinutes == TotalMinutes(measured[1].time)
             elapsed           == totalMinutes - firstPointMinutes
         IN  IF elapsed < 0 THEN elapsed + 24 * 60 ELSE elapsed

\* MinutesToIdeal with Math.floor in the place of Math.round
MinutesToIdealFloor(currentCO2_, co2Diff, timeDiff) ==
    IF currentCO2_.nan \/ co2Diff.nan THEN NaN
    ELSE Num((Sign(co2Diff.val) * (IdealLevel - currentCO2_.val) * timeDiff)
                 \div Abs(co2Diff.val))

\* Math.round((550 - currentCO2) / rate), rate = co2Diff / timeDiff
MinutesToIdeal(currentCO2_, co2Diff, timeDiff) ==
    IF currentCO2_.nan \/ co2Diff.nan THEN NaN
    ELSE Num(RoundOfQuotient(IdealLevel - currentCO2_.val, co2Diff.val, timeDiff))

buildProjectionSegment(measuredData) ==
    IF Len(measuredData) < 2 THEN <<>>
    ELSE
    LET prevPoint    == measuredData[Len(measuredData) - 1]
        currentPoint == measuredData[Len(measuredData)]
        timeDiff     == currentPoint.minutes - prevPoint.minutes
        co2Diff      == JsSub(currentPoint.co2, prevPoint.co2)
        \* rate = co2Diff / timeDiff; rate >= 0 is false for NaN
        rateNotNegative == ~co2Diff.nan /\ co2Diff.val * timeDiff >= 0
        minutesToIdeal  == MinutesToIdeal(currentPoint.co2, co2Diff, timeDiff)
        endMinute       == JsAdd(Num(currentPoint.minutes), minutesToIdeal)
    IN  IF timeDiff = 0 THEN <<>>
        ELSE IF rateNotNegative THEN <<>>
        ELSE IF ~minutesToIdeal.nan /\ minutesToIdeal.val <= 0 THEN <<>>
        ELSE << [minutes |-> Num(currentPoint.minutes),
                 co2 |-> currentPoint.co2, type |-> "projected"],
                [minutes |-> endMinute,
                 co2 |-> Num(IdealLevel), type |-> "projected"] >>

\* addDataPoint storing the new segment only when there is one
addDataPointKeepOld ==
    /\ Len(measuredPoints) < MaxPoints
    /\ IF currentTime = <<>> \/ currentCO2 = <<>>
       THEN /\ alerted' = FALSE
            /\ UNCHANGED <<measuredPoints, projectedPoints, currentTime, currentCO2>>
       ELSE IF ~timePattern(currentTime)
       THEN /\ alerted' = TRUE
            /\ UNCHANGED <<measuredPoints, projectedPoints, currentTime, currentCO2>>
       ELSE LET totalMinutes   == TotalMinutes(currentTime)
                elapsedMinutes == ElapsedMinutes(totalMinutes, measuredPoints)
                newPoint == [time |-> currentTime, minutes |-> elapsedMinutes,
                             co2 |-> parseInt(currentCO2), type |-> "measured"]
                updatedMeasured == Append(measuredPoints, newPoint)
                newSegment == buildProjectionSegment(updatedMeasured)
            IN  /\ measuredPoints' = updatedMeasured
                /\ projectedPoints' =
                       IF newSegment # <<>> THEN newSegment ELSE projectedPoints
                /\ currentTime' = <<>>
                /\ currentCO2' = <<>>
                /\ alerted' = FALSE

\* addDataPoint dropping the projection when it rejects the time
addDataPointRejectClears ==
    /\ Len(measuredPoints) < MaxPoints
    /\ IF currentTime = <<>> \/ currentCO2 = <<>>
       THEN /\ alerted' = FALSE
            /\ UNCHANGED <<measuredPoints, projectedPoints, currentTime, currentCO2>>
       ELSE IF ~timePattern(currentTime)
       THEN /\ alerted' = TRUE
            /\ projectedPoints' = <<>>
            /\ UNCHANGED <<measuredPoints, currentTime, currentCO2>>
       ELSE LET totalMinutes   == TotalMinutes(currentTime)
                elapsedMinutes == ElapsedMinutes(totalMinutes, measuredPoints)
                newPoint == [time |-> currentTime, minutes |-> elapsedMinutes,
                             co2 |-> parseInt(currentCO2), type |-> "measured"]
                updatedMeasured == Append(measuredPoints, newPoint)
            IN  /\ measuredPoints' = updatedMeasured
                /\ projectedPoints' =
                       IF Len(updatedMeasured) >= 2
                       THEN buildProjectionSegment(updatedMeasured)
                       ELSE projectedPoints
                /\ currentTime' = <<>>
                /\ currentCO2' = <<>>
                /\ alerted' = FALSE

\* addDataPoint building the projection from the readings stored before it
addDataPointStaleSegment ==
    /\ Len(measuredPoints) < MaxPoints
    /\ IF currentTime = <<>> \/ currentCO2 = <<>>
       THEN /\ alerted' = FALSE
            /\ UNCHANGED <<measuredPoints, projectedPoints, currentTime, currentCO2>>
       ELSE IF ~timePattern(currentTime)
       THEN /\ alerted' = TRUE
            /\ UNCHANGED <<measuredPoints, projectedPoints, currentTime, currentCO2>>
       ELSE LET totalMinutes   == TotalMinutes(currentTime)
                elapsedMinutes == ElapsedMinutes(totalMinutes, measuredPoints)
                newPoint == [time |-> currentTime, minutes |-> elapsedMinutes,
                             co2 |-> parseInt(currentCO2), type |-> "measured"]
                updatedMeasured == Append(measuredPoints, newPoint)
            IN  /\ measuredPoints' = updatedMeasured
                /\ projectedPoints' =
                       IF Len(measuredPoints) >= 2
                       THEN buildProjectionSegment(measuredPoints)
                       ELSE <<>>
                /\ currentTime' = <<>>
                /\ currentCO2' = <<>>
                /\ alerted' = FALSE

\* addDataPoint putting the new reading in front of the stored ones
addDataPointPrepend ==
    /\ Len(measuredPoints) < MaxPoints
    /\ IF currentTime = <<>> \/ currentCO2 = <<>>
       THEN /\ alerted' = FALSE
            /\ UNCHANGED <<measuredPoints, projectedPoints, currentTime, currentCO2>>
       ELSE IF ~timePattern(currentTime)
       THEN /\ alerted' = TRUE
            /\ UNCHANGED <<measuredPoints, projectedPoints, currentTime, currentCO2>>
       ELSE LET totalMinutes   == TotalMinutes(currentTime)
                elapsedMinutes == ElapsedMinutes(totalMinutes, measuredPoints)
                newPoint == [time |-> currentTime, minutes |-> elapsedMinutes,
                             co2 |-> parseInt(currentCO2), type |-> "measured"]
                updatedMeasured == <<newPoint>> \o measuredPoints
            IN  /\ measuredPoints' = updatedMeasured
                /\ projectedPoints' =
                       IF Len(updatedMeasured) >= 2
                       THEN buildProjectionSegment(updatedMeasured)
                       ELSE projectedPoints
                /\ currentTime' = <<>>
                /\ currentCO2' = <<>>
                /\ alerted' = FALSE

addDataPoint ==
    /\ Len(measuredPoints) < MaxPoints
    /\ IF currentTime = <<>> \/ currentCO2 = <<>>
       THEN /\ alerted' = FALSE
            /\ UNCHANGED <<measuredPoints, projectedPoints, currentTime, currentCO2>>
       ELSE IF ~timePattern(currentTime)
       THEN /\ alerted' = TRUE
            /\ UNCHANGED <<measuredPoints, projectedPoints, currentTime, currentCO2>>
       ELSE LET totalMinutes   == TotalMinutes(currentTime)
                elapsedMinutes == ElapsedMinutes(totalMinutes, measuredPoints)
                newPoint == [time |-> currentTime, minutes |-> elapsedMinutes,
                             co2 |-> parseInt(currentCO2), type |-> "measured"]
                updatedMeasured == Append(measuredPoints, newPoint)
            IN  /\ measuredPoints' = updatedMeasured
                /\ projectedPoints' =
                       IF Len(updatedMeasured) >= 2
                       THEN buildProjectionSegment(updatedMeasured)
                       ELSE projectedPoints
                /\ currentTime' = <<>>
                /\ currentCO2' = <<>>
                /\ alerted' = FALSE

\* clearData leaving the projection on the chart
clearDataKeepProjection ==
    /\ measuredPoints' = <<>>
    /\ alerted' = FALSE
    /\ UNCHANGED <<projectedPoints, currentTime, currentCO2>>

\* clearData dropping the latest reading only
clearDataLastOnly ==
    /\ measuredPoints' = IF Len(measuredPoints) = 0 THEN measuredPoints
                         ELSE SubSeq(measuredPoints, 1, Len(measuredPoints) - 1)
    /\ projectedPoints' = <<>>
    /\ alerted' = FALSE
    /\ UNCHANGED <<currentTime, currentCO2>>

clearData ==
    /\ measuredPoints' = <<>>
    /\ projectedPoints' = <<>>
    /\ alerted' = FALSE
    /\ UNCHANGED <<currentTime, currentCO2>>

\* removeLastPoint dropping the first reading in the place of the last
removeLastPointShift ==
    /\ alerted' = FALSE
    /\ UNCHANGED <<currentTime, currentCO2>>
    /\ IF Len(measuredPoints) = 0
       THEN UNCHANGED <<measuredPoints, projectedPoints>>
       ELSE LET updatedMeasured == SubSeq(measuredPoints, 2, Len(measuredPoints))
            IN  /\ measuredPoints' = updatedMeasured
                /\ projectedPoints' =
                       IF Len(updatedMeasured) >= 2
                       THEN buildProjectionSegment(updatedMeasured)
                       ELSE <<>>

\* removeLastPoint leaving the projection as it was
removeLastPointStale ==
    /\ alerted' = FALSE
    /\ UNCHANGED <<currentTime, currentCO2, projectedPoints>>
    /\ measuredPoints' =
           IF Len(measuredPoints) = 0 THEN measuredPoints
           ELSE SubSeq(measuredPoints, 1, Len(measuredPoints) - 1)

removeLastPoint ==
    /\ alerted' = FALSE
    /\ UNCHANGED <<currentTime, currentCO2>>
    /\ IF Len(measuredPoints) = 0
       THEN UNCHANGED <<measuredPoints, projectedPoints>>
       ELSE LET updatedMeasured == SubSeq(measuredPoints, 1, Len(measuredPoints) - 1)
            IN  /\ measuredPoints' = updatedMeasured
                /\ projectedPoints' =
                       IF Len(updatedMeasured) >= 2
                       THEN buildProjectionSegment(updatedMeasured)
                       ELSE <<>>

(***************************************************************************)
(* Values derived from the state on each render.                           *)
(***************************************************************************)
\* getCO2Status with the bounds excluded from each tier
getCO2StatusExclusive(co2) ==
    IF ~co2.nan /\ co2.val < 550
    THEN [text |-> "Ideal", color |-> "text-green-400", bg |-> "bg-green-900/50"]
    ELSE IF ~co2.nan /\ co2.val < 800
    THEN [text |-> "Good", color |-> "text-blue-400", bg |-> "bg-blue-900/50"]
    ELSE IF ~co2.nan /\ co2.val < 1000
    THEN [text |-> "Concerning", color |-> "text-yellow-400", bg |-> "bg-yellow-900/50"]
    ELSE [text |-> "Poor", color |-> "text-red-400", bg |-> "bg-red-900/50"]

\* every comparison with NaN is false
getCO2Status(co2) ==
    IF ~co2.nan /\ co2.val <= 550
    THEN [text |-> "Ideal", color |-> "text-green-400", bg |-> "bg-green-900/50"]
    ELSE IF ~co2.nan /\ co2.val <= 800
    THEN [text |-> "Good", color |-> "text-blue-400", bg |-> "bg-blue-900/50"]
    ELSE IF ~co2.nan /\ co2.val <= 1000
    THEN [text |-> "Concerning", color |-> "text-yellow-400", bg |-> "bg-yellow-900/50"]
    ELSE [text |-> "Poor", color |-> "text-red-400", bg |-> "bg-red-900/50"]

\* measuredPoints[measuredPoints.length - 1] and measuredPoints[measuredPoints.length - 2]
latestMeasured == measuredPoints[Len(measuredPoints)]
secondLast == measuredPoints[Len(measuredPoints) - 1]

\* slope < 0, slope = (latest.co2 - secondLast.co2) / (latest.minutes -
\* secondLast.minutes): x / 0 is -Infinity for x < 0, +Infinity for x > 0, NaN for 0
slopeIsNegative ==
    LET co2Diff  == JsSub(latestMeasured.co2, secondLast.co2)
        timeDiff == latestMeasured.minutes - secondLast.minutes
    IN  /\ ~co2Diff.nan
        /\ IF timeDiff = 0 THEN co2Diff.val < 0 ELSE co2Diff.val * timeDiff < 0

\* the branch of the render that sets timeToIdeal and currentRate
estimateIsSet ==
    /\ Len(measuredPoints) >= 2
    /\ ~latestMeasured.co2.nan
    /\ latestMeasured.co2.val > 550
    /\ slopeIsNegative

\* timeToIdeal: null, or Math.round((550 - latestMeasured.co2) / slope);
\* a finite negative number divided by -Infinity is 0
timeToIdeal ==
    IF ~estimateIsSet THEN [null |-> TRUE, minutes |-> 0]
    ELSE LET co2Diff  == latestMeasured.co2.val - secondLast.co2.val
             timeDiff == latestMeasured.minutes - secondLast.minutes
         IN  [null |-> FALSE,
              minutes |-> IF timeDiff = 0 THEN 0
                          ELSE RoundOfQuotient(550 - latestMeasured.co2.val,
                                               co2Diff, timeDiff)]

\* currentRate: null, or -slope * 60 (ppm per hour), held as the fraction
\* num / den that the double approximates; +Infinity when slope is -Infinity
currentRate ==
    IF ~estimateIsSet THEN [null |-> TRUE, infinite |-> FALSE, num |-> 0, den |-> 1]
    ELSE LET co2Diff  == latestMeasured.co2.val - secondLast.co2.val
             timeDiff == latestMeasured.minutes - secondLast.minutes
         IN  IF timeDiff = 0
             THEN [null |-> FALSE, infinite |-> TRUE, num |-> 0, den |-> 1]
             ELSE [null |-> FALSE, infinite |-> FALSE,
                   num |-> -co2Diff * 60 * Sign(timeDiff), den |-> Abs(timeDiff)]

\* the status panel shows 'CO2 not decreasing': the panel's condition holds
\* and timeToIdeal is falsy (null or 0)
notDecreasingShown ==
    /\ Len(measuredPoints) >= 2
    /\ ~latestMeasured.co2.nan
    /\ latestMeasured.co2.val > 550
    /\ (timeToIdeal.null \/ timeToIdeal.minutes = 0)

(***************************************************************************)
(* The component.  Spec explores every handler the component defines;      *)
(* SpecWired only those an element of the rendered page calls              *)
(* (removeLastPoint is defined and never called).                          *)
(***************************************************************************)
Init ==
    /\ measuredPoints = <<>>
    /\ projectedPoints = <<>>
    /\ currentTime = <<>>
    /\ currentCO2 = <<>>
    /\ alerted = FALSE
    /\ clearedOrigin = <<>>
    /\ classified = <<>>
    /\ chart = <<>>
    /\ beforeAdd = <<>>

\* history kept by addDataPoint: the first reading accepted after a Clear
\* keeps the dropped origin on record, any later one forgets it
AddHistory ==
    clearedOrigin' = IF measuredPoints' = measuredPoints \/ measuredPoints = <<>>
                     THEN clearedOrigin ELSE <<>>

\* history kept by clearData: the origin that is dropped
ClearHistory ==
    clearedOrigin' = IF measuredPoints = <<>> THEN clearedOrigin
                     ELSE measuredPoints[1].time

\* history kept by removeLastPoint
RemoveHistory ==
    clearedOrigin' = IF measuredPoints' = measuredPoints THEN clearedOrigin
                     ELSE <<>>

NextWired ==
    \/ TimeOnChange /\ UNCHANGED <<clearedOrigin, observers>>
    \/ setCurrentTimeToNow /\ UNCHANGED <<clearedOrigin, observers>>
    \/ CO2OnChange /\ UNCHANGED <<clearedOrigin, observers>>
    \/ addDataPoint /\ AddHistory /\ UNCHANGED observers
    \/ clearData /\ ClearHistory /\ UNCHANGED observers

Next ==
    \/ NextWired
    \/ removeLastPoint /\ RemoveHistory /\ UNCHANGED observers

Spec == Init /\ [][Next]_vars

SpecWired == Init /\ [][NextWired]_vars

(***************************************************************************)
(* getCO2Status on its own: the classifier applied to every concentration  *)
(* of a range, and to NaN.                                                 *)
(***************************************************************************)
StatusInputs == {Num(n) : n \in (-10)..MaxStatusInput} \cup {NaN}

Classify ==
    /\ \E co2 \in StatusInputs :
           classified' = <<[co2 |-> co2, status |-> getCO2Status(co2)]>>
    /\ UNCHANGED <<measuredPoints, projectedPoints, currentTime, currentCO2,
                   alerted, clearedOrigin, chart, beforeAdd>>

SpecStatus == Init /\ [][Classify]_vars

(***************************************************************************)
(* The chart series.  Every render computes chartData anew.  chart holds    *)
(* the series of the last render; Rerender is a render with the sequences  *)
(* as they were at the render before, as after a change of an input field. *)
(***************************************************************************)
\* a.minutes as a number: measured points hold an integer
MinutesOf(p) == IF p.type = "measured" THEN Num(p.minutes) ELSE p.minutes

\* Array.prototype.sort((a, b) => a.minutes - b.minutes) on a copy of s: a
\* stable sort by minutes.  A comparator result of NaN counts as 0, and the
\* order around such keys is left to the implementation: the model takes
\* the one of an insertion sort, where a NaN key stays in place and the
\* elements between two NaN keys are sorted among themselves.
SortByMinutes(s) ==
    LET n == Len(s)
        key == SubSeq([j \in 1..n |-> MinutesOf(s[j])], 1, n)
        lo(i) == IF \E j \in 1..(i - 1) : key[j].nan
                 THEN CHOOSE j \in 1..(i - 1) :
                          key[j].nan /\ \A k \in (j + 1)..(i - 1) : ~key[k].nan
                 ELSE 0
        hi(i) == IF \E j \in (i + 1)..n : key[j].nan
                 THEN CHOOSE j \in (i + 1)..n :
                          key[j].nan /\ \A k \in (i + 1)..(j - 1) : ~key[k].nan
                 ELSE n + 1
        before(i) == {j \in (lo(i) + 1)..(hi(i) - 1) :
                         \/ key[j].val < key[i].val
                         \/ key[j].val = key[i].val /\ j < i}
        \* the position element i is moved to
        pos == SubSeq([i \in 1..n |-> IF key[i].nan THEN i
                                      ELSE lo(i) + Cardinality(before(i)) + 1],
                      1, n)
    IN  [p \in 1..n |-> s[CHOOSE i \in 1..n : pos[i] = p]]

validProjections == IF Len(projectedPoints) = 2 THEN projectedPoints ELSE <<>>

chartData == SortByMinutes(measuredPoints \o validProjections)

\* the render that follows a handler which set the sequences
Rendered ==
    chart' = SortByMinutes(measuredPoints'
                 \o (IF Len(projectedPoints') = 2 THEN projectedPoints' ELSE <<>>))

\* a render that sorts the state arrays themselves
RerenderInPlace ==
    /\ UNCHANGED <<projectedPoints, currentTime, currentCO2, alerted,
                   clearedOrigin, classified, beforeAdd>>
    /\ measuredPoints' = SortByMinutes(measuredPoints)
    /\ chart' = chartData

Rerender ==
    /\ UNCHANGED <<measuredPoints, projectedPoints, currentTime, currentCO2,
                   alerted, clearedOrigin, classified, beforeAdd>>
    /\ chart' = chartData

NextChart ==
    \/ TimeOnChange /\ UNCHANGED <<clearedOrigin, observers>>
    \/ setCurrentTimeToNow /\ UNCHANGED <<clearedOrigin, observers>>
    \/ CO2OnChange /\ UNCHANGED <<clearedOrigin, observers>>
    \/ addDataPoint /\ AddHistory /\ Rendered /\ UNCHANGED <<classified, beforeAdd>>
    \/ clearData /\ ClearHistory /\ Rendered /\ UNCHANGED <<classified, beforeAdd>>
    \/ Rerender

SpecChart == Init /\ [][NextChart]_vars

(***************************************************************************)
(* Add followed by remove-last.  beforeAdd holds the sequences an accepted *)
(* Add started from while that Add is the last step, and after the         *)
(* removeLastPoint that follows it at once (undone); any other step        *)
(* forgets them.                                                           *)
(***************************************************************************)
AddRecorded ==
    beforeAdd' = IF measuredPoints' = measuredPoints THEN <<>>
                 ELSE <<[measured |-> measuredPoints,
                         projected |-> projectedPoints, undone |-> FALSE]>>

RemoveRecorded ==
    beforeAdd' = IF beforeAdd # <<>> /\ ~beforeAdd[1].undone
                 THEN <<[beforeAdd[1] EXCEPT !.undone = TRUE]>>
                 ELSE <<>>

NextUndo ==
    \/ TimeOnChange /\ beforeAdd' = <<>> /\ UNCHANGED <<clearedOrigin, classified, chart>>
    \/ setCurrentTimeToNow /\ beforeAdd' = <<>> /\ UNCHANGED <<clearedOrigin, classified, chart>>
    \/ CO2OnChange /\ beforeAdd' = <<>> /\ UNCHANGED <<clearedOrigin, classified, chart>>
    \/ addDataPoint /\ AddHistory /\ AddRecorded /\ UNCHANGED <<classified, chart>>
    \/ clearData /\ ClearHistory /\ beforeAdd' = <<>> /\ UNCHANGED <<classified, chart>>
    \/ removeLastPoint /\ RemoveHistory /\ RemoveRecorded /\ UNCHANGED <<classified, chart>>

SpecUndo == Init /\ [][NextUndo]_vars

(***************************************************************************)
(* The two earlier versions of the component, src/unnamed/part_000 and     *)
(* src/unnamed/part_001.  Both take the time from an <input type="time">   *)
(* (value "" or HH:MM) and do not test it; their state is the same four    *)
(* useState values, held in the same variables.  The quotients are taken   *)
(* exactly: for the readings of PartTimeInputs and PartCO2Inputs the       *)
(* points double arithmetic gives are the same.                            *)
(***************************************************************************)
PartTimeInputs ==
    { <<>>,
      <<"1", "0", ":", "0", "0">>,
      <<"1", "0", ":", "1", "0">>,
      <<"1", "0", ":", "2", "0">> }

PartCO2Inputs ==
    { <<>>,
      <<"1", "0", "0", "0">>,
      <<"7", "0", "0">>,
      <<"5", "6", "0">> }

TimeFieldOnChange ==
    /\ \E value \in PartTimeInputs : currentTime' = value
    /\ UNCHANGED <<measuredPoints, projectedPoints, currentCO2, alerted,
                   clearedOrigin, observers>>

CO2FieldOnChange ==
    /\ \E value \in PartCO2Inputs : currentCO2' = value
    /\ UNCHANGED <<measuredPoints, projectedPoints, currentTime, alerted,
                   clearedOrigin, observers>>

\* a / b of two integers is NaN
QuotientIsNaN(a, b) == a.nan \/ (b = 0 /\ a.val = 0)

\* a / b >= 0 for a number a and an integer b: false for NaN, and a / 0 is
\* +Infinity or -Infinity by the sign of a
QuotientNotNegative(a, b) ==
    /\ ~QuotientIsNaN(a, b)
    /\ IF b = 0 THEN a.val > 0 ELSE a.val * b >= 0

\* prev.filter(p => p.minutes < bound)
ProjectedBefore(prev, bound) ==
    LET Earlier(p) == ~p.minutes.nan /\ p.minutes.val < bound
    IN  SelectSeq(prev, Earlier)

\* part_000, buildProjectionSegment
buildProjectionSegment_part000(measured) ==
    IF Len(measured) < 2 THEN <<>>
    ELSE
    LET lastPoint       == measured[Len(measured)]
        secondLastPoint == measured[Len(measured) - 1]
        co2Diff         == JsSub(lastPoint.co2, secondLastPoint.co2)
        timeDiff        == lastPoint.minutes - secondLastPoint.minutes
        anchors ==
            << [minutes |-> Num(secondLastPoint.minutes),
                co2 |-> secondLastPoint.co2, type |-> "projected"],
               [minutes |-> Num(lastPoint.minutes),
                co2 |-> lastPoint.co2, type |-> "projected"] >>
        \* timeToTarget = (550 - lastPoint.co2) / slope = n / d
        n  == (550 - lastPoint.co2.val) * timeDiff
        d  == co2Diff.val
        nn == IF d < 0 THEN -n ELSE n
        dd == Abs(d)
        \* the t = lastPoint.minutes + 5k with t <= targetTime
        steps == IF nn < 5 * dd THEN 0 ELSE nn \div (5 * dd)
        stepPoints ==
            [k \in 1..steps |->
                [minutes |-> Num(lastPoint.minutes + 5 * k),
                 co2 |-> Num(MathRound(lastPoint.co2.val * timeDiff + d * 5 * k,
                                       timeDiff)),
                 type |-> "projected"]]
        targetPoint ==
            IF nn > 0
            THEN << [minutes |-> Num(MathRound(lastPoint.minutes * d + n, d)),
                     co2 |-> Num(550), type |-> "projected"] >>
            ELSE <<>>
    IN  IF QuotientNotNegative(co2Diff, timeDiff) THEN <<>>
        \* slope NaN or -Infinity: timeToTarget is NaN or 0, no step passes
        \* t <= targetTime and targetTime > lastPoint.minutes is false
        ELSE IF QuotientIsNaN(co2Diff, timeDiff) \/ timeDiff = 0 THEN anchors
        ELSE anchors \o stepPoints \o targetPoint

\* part_000, addDataPoint.  The two setProjectedPoints calls pass updater
\* functions, which run one after the other on the stored projection.
addDataPoint_part000 ==
    /\ Len(measuredPoints) < MaxPoints
    /\ UNCHANGED <<alerted, clearedOrigin, observers>>
    /\ IF currentTime = <<>> \/ currentCO2 = <<>>
       THEN UNCHANGED <<measuredPoints, projectedPoints, currentTime, currentCO2>>
       ELSE LET totalMinutes   == TotalMinutes(currentTime)
                forward        == /\ Len(measuredPoints) # 0
                                  /\ totalMinutes
                                        - TotalMinutes(measuredPoints[1].time) >= 0
                elapsedMinutes == ElapsedMinutes(totalMinutes, measuredPoints)
                afterFilter    ==
                    IF forward
                    THEN SortByMinutes(ProjectedBefore(projectedPoints, elapsedMinutes))
                    ELSE projectedPoints
                newPoint == [time |-> currentTime, minutes |-> elapsedMinutes,
                             co2 |-> parseInt(currentCO2), type |-> "measured"]
                updatedMeasured == Append(measuredPoints, newPoint)
                newSegment == buildProjectionSegment_part000(updatedMeasured)
                secondLastPoint == updatedMeasured[Len(updatedMeasured) - 1]
            IN  /\ measuredPoints' = updatedMeasured
                /\ projectedPoints' =
                       IF Len(updatedMeasured) >= 2 /\ Len(newSegment) > 0
                       THEN SortByMinutes(
                                ProjectedBefore(afterFilter, secondLastPoint.minutes)
                                    \o newSegment)
                       ELSE afterFilter
                /\ currentTime' = <<>>
                /\ currentCO2' = <<>>

\* part_000, resetData
resetData_part000 ==
    /\ measuredPoints' = <<>>
    /\ projectedPoints' = <<>>
    /\ currentTime' = <<>>
    /\ currentCO2' = <<>>
    /\ UNCHANGED <<alerted, clearedOrigin, observers>>

NextPart000 ==
    \/ TimeFieldOnChange
    \/ CO2FieldOnChange
    \/ addDataPoint_part000
    \/ resetData_part000

SpecPart000 == Init /\ [][NextPart000]_vars

\* part_001, buildProjectionSegment
buildProjectionSegment_part001(measuredData) ==
    IF Len(measuredData) < 2 THEN <<>>
    ELSE
    LET prevPoint    == measuredData[Len(measuredData) - 1]
        currentPoint == measuredData[Len(measuredData)]
        timeDiff     == currentPoint.minutes - prevPoint.minutes
        co2Diff      == JsSub(currentPoint.co2, prevPoint.co2)
        startMinutes == currentPoint.minutes
        \* Math.round(startCO2 + rate * i) for i = 5k
        projectedCO2(k) ==
            MathRound(currentPoint.co2.val * timeDiff + co2Diff.val * 5 * k,
                      timeDiff)
        \* the loop leaves at the first k with projectedCO2 < 400
        kept == IF \E k \in 1..24 : projectedCO2(k) < 400
                THEN (CHOOSE k \in 1..24 :
                         /\ projectedCO2(k) < 400
                         /\ \A j \in 1..(k - 1) : projectedCO2(j) >= 400) - 1
                ELSE 24
    IN  IF QuotientNotNegative(co2Diff, timeDiff) THEN <<>>
        \* rate NaN: Math.round gives NaN and NaN < 400 is false
        ELSE IF QuotientIsNaN(co2Diff, timeDiff)
        THEN [k \in 1..24 |-> [minutes |-> Num(startMinutes + 5 * k),
                               co2 |-> NaN, type |-> "projected"]]
        \* rate -Infinity: the first projectedCO2 is -Infinity
        ELSE IF timeDiff = 0 THEN <<>>
        ELSE [k \in 1..kept |->
                 [minutes |-> Num(startMinutes + 5 * k),
                  co2 |-> Num(projectedCO2(k)), type |-> "projected"]]

\* part_001, mergeProjectionSegments: a Map from minutes to the last point
\* given for them (every point has type 'projected'), its values in the
\* order the keys were first set, then sorted by minutes
mergeProjectionSegments_part001(allProjected) ==
    LET n        == Len(allProjected)
        firstSet == {i \in 1..n : \A j \in 1..(i - 1) :
                        allProjected[j].minutes # allProjected[i].minutes}
        lastOf(i) == CHOOSE j \in i..n :
                        /\ allProjected[j].minutes = allProjected[i].minutes
                        /\ \A k \in (j + 1)..n :
                               allProjected[k].minutes # allProjected[i].minutes
        key(r)   == CHOOSE i \in firstSet :
                        Cardinality({j \in firstSet : j < i}) = r - 1
        values   == [r \in 1..Cardinality(firstSet) |-> allProjected[lastOf(key(r))]]
    IN  SortByMinutes(values)

\* part_001, addDataPoint.  The first setProjectedPoints call passes an
\* updater function, the second one a value computed from the
\* projectedPoints of the render the handler was created in; updates apply
\* in the order they were queued.
addDataPoint_part001 ==
    /\ Len(measuredPoints) < MaxPoints
    /\ UNCHANGED <<alerted, clearedOrigin, observers>>
    /\ IF currentTime = <<>> \/ currentCO2 = <<>>
       THEN UNCHANGED <<measuredPoints, projectedPoints, currentTime, currentCO2>>
       ELSE LET totalMinutes   == TotalMinutes(currentTime)
                forward        == /\ Len(measuredPoints) # 0
                                  /\ totalMinutes
                                        - TotalMinutes(measuredPoints[1].time) >= 0
                elapsedMinutes == ElapsedMinutes(totalMinutes, measuredPoints)
                afterFilter    ==
                    IF forward
                    THEN SortByMinutes(ProjectedBefore(projectedPoints, elapsedMinutes))
                    ELSE projectedPoints
                newPoint == [time |-> currentTime, minutes |-> elapsedMinutes,
                             co2 |-> parseInt(currentCO2), type |-> "measured"]
                updatedMeasured == Append(measuredPoints, newPoint)
                newSegment == buildProjectionSegment_part001(updatedMeasured)
                mergedProjected ==
                    mergeProjectionSegments_part001(projectedPoints \o newSegment)
            IN  /\ measuredPoints' = updatedMeasured
                /\ projectedPoints' =
                       IF Len(updatedMeasured) >= 2 THEN mergedProjected
                       ELSE afterFilter
                /\ currentTime' = <<>>
                /\ currentCO2' = <<>>

\* part_001, clearData
clearData_part001 ==
    /\ measuredPoints' = <<>>
    /\ projectedPoints' = <<>>
    /\ UNCHANGED <<currentTime, currentCO2, alerted, clearedOrigin, observers>>

NextPart001 ==
    \/ TimeFieldOnChange
    \/ CO2FieldOnChange
    \/ addDataPoint_part001
    \/ clearData_part001

SpecPart001 == Init /\ [][NextPart001]_vars

(***************************************************************************)
(* Properties.                                                             *)
(***************************************************************************)
T2350 == <<"2", "3", ":", "5", "0">>
T0000 == <<"0", "0", ":", "0", "0">>
T0010 == <<"0", "0", ":", "1", "0">>

\* a strict 24-hour time: two-digit hours 00-23, a colon, two-digit minutes 00-59
StrictTime(s) ==
    /\ Len(s) = 5
    /\ s[3] = ":"
    /\ s[1] \in Digit /\ s[2] \in Digit /\ s[4] \in Digit /\ s[5] \in Digit
    /\ 10 * DigitValue(s[1]) + DigitValue(s[2]) <= 23
    /\ 10 * DigitValue(s[4]) + DigitValue(s[5]) <= 59

\* minutes since midnight of a strict time
WallClockMinutes(s) ==
    (10 * DigitValue(s[1]) + DigitValue(s[2])) * 60
        + 10 * DigitValue(s[4]) + DigitValue(s[5])

\* minutes from the first reading's wall-clock time to the i-th one's, modulo a day
OffsetFromOrigin(i) ==
    (WallClockMinutes(measuredPoints[i].time)
         - WallClockMinutes(measuredPoints[1].time)) % 1440

Latest == measuredPoints[Len(measuredPoints)]
Previous == measuredPoints[Len(measuredPoints) - 1]

\* C1: whenever the measured sequence is non-empty, its first measurement
\* has elapsed minutes 0, whatever wall-clock time it was submitted with.
C1_FirstElapsedIsZero ==
    Len(measuredPoints) > 0 => measuredPoints[1].minutes = 0

\* C1 witness: a session of several readings whose origin was submitted at 23:50
C1_Witness ==
    /\ Len(measuredPoints) >= 2
    /\ measuredPoints[1].time = T2350
    /\ measuredPoints[1].minutes = 0

\* C2: every reading after the first has elapsed minutes equal to its
\* wall-clock minutes minus the first reading's, plus 1440 when that
\* difference is negative; origin 23:50 followed by 00:10 gives 20; every
\* stored elapsed value lies in 0..1439.
C2_ElapsedRelativeToOrigin ==
    /\ \A i \in 1..Len(measuredPoints) : measuredPoints[i].minutes \in 0..1439
    /\ \A i \in 2..Len(measuredPoints) :
          LET d == WallClockMinutes(measuredPoints[i].time)
                       - WallClockMinutes(measuredPoints[1].time)
          IN  /\ measuredPoints[i].minutes = IF d < 0 THEN d + 1440 ELSE d
              /\ (measuredPoints[1].time = T2350 /\ measuredPoints[i].time = T0010)
                     => measuredPoints[i].minutes = 20

\* C2 witness: origin 23:50, next reading 00:10, stored with elapsed 20
C2_Witness ==
    /\ Len(measuredPoints) >= 2
    /\ measuredPoints[1].time = T2350
    /\ measuredPoints[2].time = T0010
    /\ measuredPoints[2].minutes = 20

\* C3 (as claimed): each measurement's elapsed minutes are greater than or
\* equal to those of the measurement inserted before it.
C3_Chronological ==
    \A i \in 2..Len(measuredPoints) :
        measuredPoints[i].minutes >= measuredPoints[i - 1].minutes

\* C3 (amended): each measurement's elapsed minutes are greater than or
\* equal to those of the measurement inserted before it, provided its
\* wall-clock time, counted in minutes after the first measurement's
\* wall-clock time modulo 1440, is not earlier than the previous one's.
C3_ChronologicalUnlessBackward ==
    \A i \in 2..Len(measuredPoints) :
        OffsetFromOrigin(i) >= OffsetFromOrigin(i - 1)
            => measuredPoints[i].minutes >= measuredPoints[i - 1].minutes

\* C3 witness: three readings across midnight, each later than the one before
C3_Witness ==
    /\ Len(measuredPoints) = 3
    /\ measuredPoints[1].time = T2350
    /\ measuredPoints[2].time = T0000
    /\ measuredPoints[3].time = T0010
    /\ measuredPoints[2].minutes = 10
    /\ measuredPoints[3].minutes = 20

\* the two latest readings are numbers, taken at different elapsed minutes
TwoComparableReadings ==
    /\ Len(measuredPoints) >= 2
    /\ ~Latest.co2.nan
    /\ ~Previous.co2.nan

\* sign of the rate (ppm per minute) between the previous and the latest reading
RateIsNegative ==
    (Latest.co2.val - Previous.co2.val) * (Latest.minutes - Previous.minutes) < 0

\* round(latest.elapsed + (550 - latest.concentration) / rate) in exact
\* arithmetic, NaN when a concentration is NaN
ExactEndMinute ==
    IF Latest.co2.nan \/ Previous.co2.nan THEN NaN
    ELSE LET co2Diff  == Latest.co2.val - Previous.co2.val
             timeDiff == Latest.minutes - Previous.minutes
         IN  Num(MathRound(Latest.minutes * co2Diff
                               + (550 - Latest.co2.val) * timeDiff, co2Diff))

\* C4: a non-empty projection is exactly two points: the latest reading's
\* elapsed minutes and concentration, then concentration 550 at elapsed
\* minutes round(latest.elapsed + (550 - latest.concentration) / rate).
C4_ProjectionIsAnchoredSegment ==
    projectedPoints # <<>> =>
        /\ Len(projectedPoints) = 2
        /\ Len(measuredPoints) >= 2
        /\ projectedPoints[1].minutes = Num(Latest.minutes)
        /\ projectedPoints[1].co2 = Latest.co2
        /\ projectedPoints[2].co2 = Num(550)
        /\ projectedPoints[2].minutes = ExactEndMinute

\* the readings (elapsed 0, 1000 ppm) and (elapsed 10, 800 ppm), nothing else
C5_TwoReadings ==
    /\ Len(measuredPoints) = 2
    /\ measuredPoints[1].minutes = 0 /\ measuredPoints[1].co2 = Num(1000)
    /\ measuredPoints[2].minutes = 10 /\ measuredPoints[2].co2 = Num(800)

\* C5 (as claimed): after the readings (0, 1000) and (10, 800) the
\* projection is exactly [(10, 800), (33, 550)].
C5_ProjectionEndsAt33 ==
    C5_TwoReadings =>
        projectedPoints =
            << [minutes |-> Num(10), co2 |-> Num(800), type |-> "projected"],
               [minutes |-> Num(33), co2 |-> Num(550), type |-> "projected"] >>

\* C5 (amended): after the readings (0, 1000) and (10, 800) the rate is
\* -20 ppm/min and the projection is exactly [(10, 800), (23, 550)].
C5_ProjectionEndsAt23 ==
    C5_TwoReadings =>
        /\ Latest.co2.val - Previous.co2.val
               = -20 * (Latest.minutes - Previous.minutes)
        /\ projectedPoints =
               << [minutes |-> Num(10), co2 |-> Num(800), type |-> "projected"],
                  [minutes |-> Num(23), co2 |-> Num(550), type |-> "projected"] >>

\* C5 witness: the two readings are stored and a projection is held
C5_Witness == C5_TwoReadings /\ Len(projectedPoints) = 2

\* C6: whenever the last two measurements have different elapsed minutes,
\* the rate between them is negative and the latest concentration is above
\* 550, the projection is the non-empty two-point segment.
C6_DecreasingAboveIdealIsProjected ==
    ( /\ TwoComparableReadings
      /\ Latest.minutes # Previous.minutes
      /\ RateIsNegative
      /\ Latest.co2.val > 550 )
        => Len(projectedPoints) = 2

\* C7 (as claimed): whenever the latest concentration is greater than or
\* equal to the previous one, the projection is empty.
C7_NotDecreasingEmptiesProjection ==
    (TwoComparableReadings /\ Latest.co2.val >= Previous.co2.val)
        => projectedPoints = <<>>

\* C7 (amended): whenever the latest concentration is greater than or equal
\* to the previous one and the latest elapsed minutes are not smaller than
\* the previous ones, the projection is empty.
C7_NotDecreasingForwardEmptiesProjection ==
    ( /\ TwoComparableReadings
      /\ Latest.co2.val >= Previous.co2.val
      /\ Latest.minutes >= Previous.minutes )
        => projectedPoints = <<>>

\* C7 witness: the first two readings gave a projection, the third one is
\* later and not lower, and no projection is held
C7_Witness ==
    /\ Len(measuredPoints) = 3
    /\ buildProjectionSegment(SubSeq(measuredPoints, 1, 2)) # <<>>
    /\ TwoComparableReadings
    /\ Latest.co2.val >= Previous.co2.val
    /\ Latest.minutes > Previous.minutes
    /\ projectedPoints = <<>>

\* C8: the stored projection equals the projection computed from the last
\* two entries of the current measured sequence, and is empty when fewer
\* than two measurements exist.
C8_ProjectionIsDerived ==
    projectedPoints =
        IF Len(measuredPoints) >= 2 THEN buildProjectionSegment(measuredPoints)
        ELSE <<>>

\* C8 witness: the two latest of three readings give a projection other
\* than the one the first two gave, and it is the one held
C8_Witness ==
    /\ Len(measuredPoints) = 3
    /\ buildProjectionSegment(SubSeq(measuredPoints, 1, 2)) # <<>>
    /\ projectedPoints # <<>>
    /\ projectedPoints # buildProjectionSegment(SubSeq(measuredPoints, 1, 2))

\* C9: an Add whose time string is not a strict 24-hour time appends no
\* measurement, and raises the format alert when both fields are filled.
C9_MalformedTimeRejected ==
    [][ (addDataPoint /\ ~StrictTime(currentTime))
            => /\ measuredPoints' = measuredPoints
               /\ (currentTime # <<>> /\ currentCO2 # <<>>) => alerted' ]_vars

\* C9 witness: the alert is up for a time typed with a one-digit minute
C9_Witness ==
    /\ alerted
    /\ currentTime = <<"2", "3", ":", "7">>
    /\ currentCO2 # <<>>

\* C10: no measurement whose concentration is not a number is ever stored.
C10_NoNaNStored ==
    \A i \in 1..Len(measuredPoints) : ~measuredPoints[i].co2.nan

\* C11: an Add with an empty time, an empty concentration or a time that is
\* not a strict 24-hour time leaves the measured and the projected sequence
\* exactly as they were.
C11_RejectedAddLeavesState ==
    [][ ( /\ addDataPoint
          /\ (currentTime = <<>> \/ currentCO2 = <<>> \/ ~StrictTime(currentTime)) )
            => UNCHANGED <<measuredPoints, projectedPoints>> ]_vars

\* C11 witness: the format alert is up over stored readings and a projection
C11_Witness ==
    /\ alerted
    /\ Len(measuredPoints) >= 2
    /\ projectedPoints # <<>>
    /\ currentTime # <<>>
    /\ ~StrictTime(currentTime)

\* the typed time is a strict time whose elapsed minutes, counted from the
\* first reading, equal those of the latest stored reading
SubmissionAtLatestElapsed ==
    /\ Len(measuredPoints) >= 1
    /\ currentTime # <<>>
    /\ currentCO2 # <<>>
    /\ StrictTime(currentTime)
    /\ (WallClockMinutes(currentTime)
            - WallClockMinutes(measuredPoints[1].time)) % 1440 = Latest.minutes

\* C12: an Add whose elapsed minutes equal those of the measurement before
\* it is rejected: nothing is appended and the measured and the projected
\* sequence stay as they were.
C12_DegenerateIntervalRejected ==
    [][ (addDataPoint /\ SubmissionAtLatestElapsed)
            => UNCHANGED <<measuredPoints, projectedPoints>> ]_vars

\* the last two readings were taken at the same elapsed minutes
DegenerateInterval ==
    Len(measuredPoints) >= 2 /\ Latest.minutes = Previous.minutes

\* C13: when the last two measurements share the same elapsed minutes the
\* projection is empty whatever their concentrations, and no projected point
\* ever has a coordinate that is not a finite number.
C13_DegenerateIsEmptyAndFinite ==
    /\ DegenerateInterval => projectedPoints = <<>>
    /\ \A i \in 1..Len(projectedPoints) :
          ~projectedPoints[i].minutes.nan /\ ~projectedPoints[i].co2.nan

\* C14: after a Clear both sequences are empty, and the next accepted Add
\* is stored with elapsed minutes 0 as the only measurement, whatever the
\* origin was that the Clear dropped.
C14_ClearThenNewOrigin ==
    clearedOrigin # <<>> =>
        /\ projectedPoints = <<>>
        /\ \/ measuredPoints = <<>>
           \/ /\ Len(measuredPoints) = 1
              /\ measuredPoints[1].minutes = 0

\* C14 witness: a session with origin 23:50 was cleared and the next
\* reading, of 00:10, is the new origin
C14_Witness ==
    /\ clearedOrigin = T2350
    /\ Len(measuredPoints) = 1
    /\ measuredPoints[1].time = T0010
    /\ measuredPoints[1].minutes = 0

\* C15: the classifier gives every concentration exactly one of the four
\* labels: Ideal up to 550, Good above 550 up to 800, Concerning above 800
\* up to 1000, Poor above 1000; 550 is Ideal, 551 Good, 1000 Concerning and
\* 1001 Poor.
C15_StatusThresholds ==
    \A i \in 1..Len(classified) :
        LET c     == classified[i].co2
            label == classified[i].status.text
        IN  /\ label \in {"Ideal", "Good", "Concerning", "Poor"}
            /\ ~c.nan =>
                  /\ label = "Ideal" <=> c.val <= 550
                  /\ label = "Good" <=> (550 < c.val /\ c.val <= 800)
                  /\ label = "Concerning" <=> (800 < c.val /\ c.val <= 1000)
                  /\ label = "Poor" <=> c.val > 1000
                  /\ c.val = 550 => label = "Ideal"
                  /\ c.val = 551 => label = "Good"
                  /\ c.val = 1000 => label = "Concerning"
                  /\ c.val = 1001 => label = "Poor"

\* C15 witness: 551 ppm was classified, as Good
C15_Witness ==
    /\ Len(classified) = 1
    /\ classified[1].co2 = Num(551)
    /\ classified[1].status.text = "Good"

\* the states in which an estimate is due: two readings or more, the latest
\* above 550 and a negative rate between the last two
EstimateIsDue ==
    /\ TwoComparableReadings
    /\ Latest.co2.val > 550
    /\ RateIsNegative

\* C16: the time-to-target estimate is null exactly when there are fewer
\* than two measurements, the latest concentration is at most 550 or the
\* rate between the last two is not negative; otherwise its minutes are
\* round((550 - latest.concentration) / rate) and its rate per hour is
\* -rate * 60.
C16_TimeToTargetEstimate ==
    IF ~EstimateIsDue
    THEN timeToIdeal.null /\ currentRate.null
    ELSE LET co2Diff  == Latest.co2.val - Previous.co2.val
             timeDiff == Latest.minutes - Previous.minutes
         IN  /\ ~timeToIdeal.null
             /\ timeToIdeal.minutes
                    = MathRound((550 - Latest.co2.val) * timeDiff, co2Diff)
             /\ ~currentRate.null
             /\ ~currentRate.infinite
             /\ currentRate.num * timeDiff = -co2Diff * 60 * currentRate.den

\* C17: the time-to-target estimate is non-null exactly when the projection
\* is non-empty, and then the last projected point lies at the latest
\* measurement's elapsed minutes plus the estimate's minutes.
C17_EstimateMatchesProjection ==
    /\ ~timeToIdeal.null <=> projectedPoints # <<>>
    /\ (~timeToIdeal.null /\ projectedPoints # <<>>) =>
           projectedPoints[Len(projectedPoints)].minutes
               = Num(Latest.minutes + timeToIdeal.minutes)

\* C18: every stored measurement has elapsed minutes that are a
\* non-negative integer and a concentration that is a positive integer.
C18_StoredReadingsWellFormed ==
    \A i \in 1..Len(measuredPoints) :
        /\ measuredPoints[i].minutes \in Nat
        /\ ~measuredPoints[i].co2.nan
        /\ measuredPoints[i].co2.val > 0

\* the measured sequence before the step is a prefix of the one after it
MeasuredIsPrefixOfNext ==
    /\ Len(measuredPoints') >= Len(measuredPoints)
    /\ SubSeq(measuredPoints', 1, Len(measuredPoints)) = measuredPoints

C20_StoredReadingsImmutable ==
    [][ addDataPoint =>
          /\ MeasuredIsPrefixOfNext
          /\ (currentTime # <<>> /\ currentCO2 # <<>> /\ StrictTime(currentTime))
                 => Len(measuredPoints') = Len(measuredPoints) + 1 ]_vars

\* C20 witness: three readings, stored in the order they were added in
\* although the third was taken before the second
C20_Witness ==
    /\ Len(measuredPoints) = 3
    /\ measuredPoints[1].time = T2350
    /\ measuredPoints[2].time = T0010
    /\ measuredPoints[3].time = T0000
    /\ measuredPoints[1].co2 = Num(1000)
    /\ measuredPoints[2].co2 = Num(800)

\* the Add is accepted: both fields are filled and the time is well formed
AddIsAccepted ==
    /\ addDataPoint
    /\ currentTime # <<>>
    /\ currentCO2 # <<>>
    /\ timePattern(currentTime)

\* C21: the state shown after an accepted Add holds the new reading, stored
\* with the elapsed minutes normalized against the readings before it, at
\* the end of the measured sequence together with the projection computed
\* for that new sequence, never the old or the intermediate empty one.
C21_AddIsAtomic ==
    [][ AddIsAccepted =>
          /\ Len(measuredPoints') = Len(measuredPoints) + 1
          /\ MeasuredIsPrefixOfNext
          /\ measuredPoints'[Len(measuredPoints')].time = currentTime
          /\ measuredPoints'[Len(measuredPoints')].minutes
                 = IF measuredPoints = <<>> THEN 0
                   ELSE (WallClockMinutes(currentTime)
                            - WallClockMinutes(measuredPoints[1].time)) % 1440
          /\ projectedPoints' =
                 IF Len(measuredPoints') >= 2
                 THEN buildProjectionSegment(measuredPoints')
                 ELSE <<>> ]_vars

\* C21 witness: the third reading was added over an empty projection and
\* the projection of the new sequence is on display
C21_Witness ==
    /\ Len(measuredPoints) = 3
    /\ buildProjectionSegment(SubSeq(measuredPoints, 1, 2)) = <<>>
    /\ projectedPoints # <<>>
    /\ currentTime = <<>>
    /\ currentCO2 = <<>>

\* C26: a non-empty projection ends strictly after the latest measurement,
\* whose concentration is strictly above 550 and strictly below the
\* previous measurement's.
C26_ProjectionForwardAndDownward ==
    projectedPoints # <<>> =>
        /\ Len(measuredPoints) >= 2
        /\ ~projectedPoints[Len(projectedPoints)].minutes.nan
        /\ projectedPoints[Len(projectedPoints)].minutes.val > Latest.minutes
        /\ ~Latest.co2.nan
        /\ Latest.co2.val > 550
        /\ ~Previous.co2.nan
        /\ Previous.co2.val > Latest.co2.val

\* C27: whenever the status panel shows 'CO2 not decreasing', the latest
\* concentration is greater than or equal to the previous measurement's.
C27_NotDecreasingMessageIsTrue ==
    notDecreasingShown =>
        /\ ~Previous.co2.nan
        /\ Latest.co2.val >= Previous.co2.val

C28_RemoveLastUndoesAdd ==
    (beforeAdd # <<>> /\ beforeAdd[1].undone) =>
        /\ measuredPoints = beforeAdd[1].measured
        /\ projectedPoints = beforeAdd[1].projected

\* C28 witness: a third reading that replaced the projection was added and
\* removed again
C28_Witness ==
    /\ beforeAdd # <<>>
    /\ beforeAdd[1].undone
    /\ Len(measuredPoints) = 2
    /\ projectedPoints # <<>>

\* the points of a sequence of projected points
PointsOf(projected) == {projected[i] : i \in 1..Len(projected)}

\* C22: in part_000, after any sequence of adds every stored projected point
\* is a point of the segment built from the two most recent measurements,
\* so that none comes from an older measurement.
C22_ProjectionFromLastTwoOnly ==
    PointsOf(projectedPoints)
        \subseteq PointsOf(buildProjectionSegment_part000(measuredPoints))

\* the step is an accepted add of part_001 of a reading that is not the
\* first and whose wall-clock difference to the origin is not negative
ForwardAdd ==
    /\ Len(measuredPoints) >= 1
    /\ Len(measuredPoints') = Len(measuredPoints) + 1
    /\ TotalMinutes(measuredPoints'[Len(measuredPoints')].time)
          - TotalMinutes(measuredPoints[1].time) >= 0

\* C24: in part_001, when a reading with elapsed minutes e is added and its
\* wall-clock difference to the origin is not negative, a projected point
\* stored before with minutes >= e is gone afterwards, unless the point now
\* stored for that minute is one of the freshly built segment.
C24_FutureProjectionsDropped ==
    [][ForwardAdd =>
          LET e == measuredPoints'[Len(measuredPoints')].minutes
              fresh == PointsOf(buildProjectionSegment_part001(measuredPoints'))
          IN  \A p \in PointsOf(projectedPoints) :
                  p.minutes.val >= e =>
                      \A q \in PointsOf(projectedPoints') :
                          q.minutes = p.minutes => q \in fresh]_vars

\* the last two measurements have the same elapsed minutes
SameElapsedPair ==
    /\ Len(measuredPoints) >= 2
    /\ measuredPoints[Len(measuredPoints)].minutes
          = measuredPoints[Len(measuredPoints) - 1].minutes

\* C25: in part_001, a pair of measurements with equal elapsed minutes gives
\* an empty segment, and no stored projected point has a NaN concentration
\* or a NaN time.
C25_DegeneratePairYieldsNothing ==
    /\ SameElapsedPair => buildProjectionSegment_part001(measuredPoints) = <<>>
    /\ \A p \in PointsOf(projectedPoints) : ~p.co2.nan /\ ~p.minutes.nan

====
